---- MODULE Spec2Model ----
(***************************************************************************)
(* A model of kube-runtime's reflector store                               *)
(* (src/kube-runtime/src/reflector/store.rs): one Writer applying watcher  *)
(* events to a map behind a reader-writer lock, any number of tasks        *)
(* querying it through Store handles, and the one-shot readiness cell.     *)
(***************************************************************************)
EXTENDS Integers, Sequences, FiniteSets, Bags, TLC

\* ------------------------------------------------------------------ bounds
\* Number of distinct object names the watcher may report.
NumNames == 1
\* Number of distinct namespaces (besides "no namespace").
NumNamespaces == 1
\* metadata.generation ranges over 0..MaxGen.
MaxGen == 1
\* Longest list carried by a Restarted event.
MaxList == 2
\* Number of tasks that call into Store handles concurrently.
NumReaders == 2
\* Most Store handles alive at once (as_reader and clone stop there).
MaxHandles == 2

NameList == <<"obj", "obj1", "obj2", "obj3">>
NamespaceList == <<"ns", "ns1", "ns2">>

Names == {NameList[i] : i \in 1..NumNames}
Namespaces == {NamespaceList[i] : i \in 1..NumNamespaces}
Readers == 1..NumReaders

\* metadata.namespace == None (a cluster-scoped object, or a cluster-scoped key).
NoNamespace == "<none>"
NsOpt == Namespaces \cup {NoNamespace}

\* K::DynamicType values: the Writer is built with one, a caller's key may carry any.
DynTypes == {"cm", "other"}

\* The objects K a watcher event can carry (the metadata the store looks at).
Resources == [namespace : NsOpt, name : Names, generation : 0..MaxGen]

\* ObjectRef<K>
Keys == [dyntype : DynTypes, namespace : NsOpt, name : Names]

\* ObjectRef::from_obj_with(obj, dyntype)
from_obj_with(obj, dt) ==
    [dyntype |-> dt, namespace |-> obj.namespace, name |-> obj.name]

\* ------------------------------------------------------------- AHashMap
\* The map is a function from the keys it holds to the Arc<K> stored there.
EmptyMap == [k \in {} |-> [namespace |-> NoNamespace, name |-> "", generation |-> 0]]
\* A variant that keeps an entry already there (an insert-if-absent).
MapInsertIfAbsent(m, key, obj) ==
    [k \in (DOMAIN m) \cup {key} |-> IF k \in DOMAIN m THEN m[k] ELSE obj]

\* A variant that drops the entries of the same name under other namespaces.
MapInsertByName(m, key, obj) ==
    [k \in {k2 \in DOMAIN m : k2.name # key.name} \cup {key} |->
        IF k = key THEN obj ELSE m[k]]

\* AHashMap::insert
MapInsert(m, key, obj) ==
    [k \in (DOMAIN m) \cup {key} |-> IF k = key THEN obj ELSE m[k]]

\* A variant that leaves the entry where it is.
MapRemoveNothing(m, key) == m

\* A variant that removes every entry of that name, whatever its namespace.
MapRemoveByName(m, key) == [k \in {k2 \in DOMAIN m : k2.name # key.name} |-> m[k]]

\* AHashMap::remove
MapRemove(m, key) ==
    [k \in (DOMAIN m) \ {key} |-> m[k]]

\* AHashMap::get, as an Option: {} is None, {v} is Some(v).
MapGet(m, key) ==
    IF key \in DOMAIN m THEN {m[key]} ELSE {}

\* new_objs.iter().map(|obj| (key, Arc::new(obj))).collect::<AHashMap<_, _>>():
\* the pairs are inserted in list order, so a later element replaces an earlier
\* one with the same key.
RECURSIVE CollectFrom(_, _, _, _)
CollectFrom(m, objs, i, dt) ==
    IF i > Len(objs) THEN m
    ELSE CollectFrom(MapInsert(m, from_obj_with(objs[i], dt), objs[i]), objs, i + 1, dt)

Collect(objs, dt) == CollectFrom(EmptyMap, objs, 1, dt)

\* ---------------------------------------------------------- watcher::Event
NoEvent == [type |-> "None", objs |-> <<>>]

Lists == UNION {[1..n -> Resources] : n \in 0..MaxList}

Events ==
    {[type |-> t, objs |-> <<o>>] : t \in {"Applied", "Deleted"}, o \in Resources}
    \cup {[type |-> "Restarted", objs |-> l] : l \in Lists}
\* A variant whose Restarted extends the map it finds instead of replacing it.
ApplyEventExtend(m, event, dt) ==
    CASE event.type = "Applied" ->
            MapInsert(m, from_obj_with(event.objs[1], dt), event.objs[1])
      [] event.type = "Deleted" ->
            MapRemove(m, from_obj_with(event.objs[1], dt))
      [] event.type = "Restarted" ->
            CollectFrom(m, event.objs, 1, dt)
      [] OTHER -> m

\* A variant that takes the write guard and leaves the map as it found it.
ApplyEventNothing(m, event, dt) == m

\* A variant whose Applied stores the object under its name alone.
ApplyEventUnscoped(m, event, dt) ==
    CASE event.type = "Applied" ->
            MapInsert(m, [dyntype |-> dt, namespace |-> NoNamespace,
                          name |-> event.objs[1].name], event.objs[1])
      [] event.type = "Deleted" ->
            MapRemove(m, from_obj_with(event.objs[1], dt))
      [] event.type = "Restarted" ->
            Collect(event.objs, dt)
      [] OTHER -> m

\* The match of apply_watcher_event: the map the write guard is left holding.
ApplyEvent(m, event, dt) ==
    CASE event.type = "Applied" ->
            MapInsert(m, from_obj_with(event.objs[1], dt), event.objs[1])
      [] event.type = "Deleted" ->
            MapRemove(m, from_obj_with(event.objs[1], dt))
      [] event.type = "Restarted" ->
            Collect(event.objs, dt)
      [] OTHER -> m
\* A variant in which read() does not wait for the writer.
ReadAllowedAlways(lk) == TRUE

\* ------------------------------------------------------------ RwLock
\* parking_lot::RwLock: read() waits while a writer holds the lock.
ReadAllowed(lk) == ~lk.writer

\* write() waits while anyone holds the lock.
WriteAllowed(lk) == ~lk.writer /\ lk.readers = {}

\* ------------------------------------------------------- DelayedInit<()>
\* Initializer::init(()): the cell becomes initialised.
InitializerInit(g) == "Set"

\* Dropping an Initializer that was never used leaves the cell abandoned.
InitializerDrop(g) == IF g = "Unset" THEN "Abandoned" ELSE g

\* A variant that never finds the Initializer, so never calls init.
TakeReadyTxNever(tx) == [taken |-> FALSE, left |-> tx]

\* A variant that leaves the Initializer in place after using it.
TakeReadyTxKept(tx) == [taken |-> tx, left |-> tx]

\* Option::take on ready_tx: what is taken out, and what is left behind.
TakeReadyTx(tx) == [taken |-> tx, left |-> FALSE]
\* A variant that forgets to erase the namespace.
ClusterKeyKept(key) == key

\* A variant that retries under some namespace instead of under none.
ClusterKeyNamespaced(key) ==
    [key EXCEPT !.namespace = CHOOSE ns \in Namespaces : TRUE]

\* ------------------------------------------------------------ Store reads
\* Store::get once the exact lookup has missed: the key with its namespace erased.
ClusterKey(key) == [key EXCEPT !.namespace = NoNamespace]

\* A variant that erases the namespace before the first lookup already.
ExactKeyErased(key) == [key EXCEPT !.namespace = NoNamespace]

\* Store::get, the first lookup: the key as the caller gave it.
ExactKey(key) == key

\* Store::get
Get(m, key) ==
    IF MapGet(m, ExactKey(key)) # {} THEN MapGet(m, ExactKey(key))
    ELSE MapGet(m, ClusterKey(key))

\* Store::state: the values of the map, as a bag (a Vec in unspecified order).
State(m) ==
    LET vals == {m[k] : k \in DOMAIN m}
    IN  [v \in vals |-> Cardinality({k \in DOMAIN m : m[k] = v})]

\* A predicate handed to Store::find: metadata.generation == g.
Preds == 0..MaxGen
Satisfies(obj, g) == obj.generation = g
\* A variant that returns an entry without testing the predicate.
FindAny(m, g) ==
    IF DOMAIN m = {} THEN {{}} ELSE {{m[k]} : k \in DOMAIN m}

\* Store::find: the first match in the map's iteration order, which is
\* unspecified: any matching value may be the one returned.
Find(m, g) ==
    LET hits == {m[k] : k \in {k2 \in DOMAIN m : Satisfies(m[k2], g)}}
    IN  IF hits = {} THEN {{}} ELSE {{v} : v \in hits}

\* Store::len
StoreLen(m) == Cardinality(DOMAIN m)

\* A variant that also calls a map of one entry empty.
IsEmptyUpToOne(m) == Cardinality(DOMAIN m) <= 1

\* Store::is_empty
IsEmpty(m) == DOMAIN m = {}

\* ------------------------------------------------------ Writer and Store
\* The Arcs the Writer holds: its Cache<K> and its DelayedInit cell.
WriterRefs == [store |-> "cache", ready_rx |-> "cell"]

\* A variant that builds the handle around a cache of its own.
AsReaderFresh(w) == [store |-> "fresh", ready_rx |-> w.ready_rx]

\* #[derive(Clone)] on Store: both Arcs are cloned.
CloneStore(h) == [store |-> h.store, ready_rx |-> h.ready_rx]

\* Writer::as_reader: both Arcs are cloned, so the handle points where the
\* Writer points.
AsReader(w) == [store |-> w.store, ready_rx |-> w.ready_rx]

\* ------------------------------------------------------------------ state
VARIABLES
    dyntype,    \* Writer.dyntype
    store,      \* the AHashMap behind Cache<K>
    lock,       \* the RwLock around it: [writer, readers]
    wpc,        \* where the Writer is: idle, locked, unlocked, dropped
    event,      \* the event apply_watcher_event is applying
    pre,        \* the map as it was when the current apply call started
    ready_tx,   \* Writer.ready_tx is Some
    gate,       \* the DelayedInit cell: Unset, Set, Abandoned
    applies,    \* whether an apply_watcher_event call has completed
    inits,      \* how many times Initializer::init has run
    count,      \* entries added to the map minus entries removed from it
    handles,    \* the Store handles alive, in the order they were made
    rh,         \* each task: the handle its call goes through (0: no call)
    rpc,        \* each task: idle, reading, fallback, waiting
    rcall,      \* each task's call in progress
    ret         \* the call that returned in the last step, and what it returned

vars == <<dyntype, store, lock, wpc, event, pre, ready_tx, gate, applies, inits,
          count, handles, rh, rpc, rcall, ret>>

\* The map a Cache<K> reference leads to: the Writer's, or one nothing writes to.
Content(ref) == IF ref = WriterRefs.store THEN store ELSE EmptyMap

\* The state of the cell a DelayedInit reference leads to.
CellOf(ref) == IF ref = WriterRefs.ready_rx THEN gate ELSE "Unset"

NoKey == [dyntype |-> "-", namespace |-> "-", name |-> "-"]
NoCall == [op |-> "none", key |-> NoKey, pred |-> 0]
NoRet ==
    [task |-> 0, handle |-> 0, call |-> NoCall, how |-> "none",
     opt |-> {}, bag |-> EmptyBag, n |-> 0, flag |-> FALSE]

\* The calls a task can make on a Store handle that read the map.
Calls ==
    {[op |-> "get", key |-> k, pred |-> 0] : k \in Keys}
    \cup {[op |-> "find", key |-> NoKey, pred |-> g] : g \in Preds}
    \cup {[op |-> o, key |-> NoKey, pred |-> 0] : o \in {"state", "len", "is_empty"}}

WaitCall == [NoCall EXCEPT !.op = "wait"]

\* store(): Writer::new(dyntype) and one as_reader(), with no task started yet.
Init ==
    /\ dyntype \in DynTypes
    /\ store = EmptyMap
    /\ lock = [writer |-> FALSE, readers |-> {}]
    /\ wpc = "idle"
    /\ event = NoEvent
    /\ pre = EmptyMap
    /\ ready_tx = TRUE
    /\ gate = "Unset"
    /\ applies = FALSE
    /\ inits = 0
    /\ count = 0
    /\ handles = <<AsReader(WriterRefs)>>
    /\ rh = [r \in Readers |-> 0]
    /\ rpc = [r \in Readers |-> "idle"]
    /\ rcall = [r \in Readers |-> NoCall]
    /\ ret = NoRet

\* ----------------------------------------------------------------- Writer
\* The entries an event adds to the map it meets, and the entries it removes
\* from it; a Restarted leaves as many as its list has keys.
CountAfter(n, m, e, dt) ==
    CASE e.type = "Applied" ->
            IF from_obj_with(e.objs[1], dt) \in DOMAIN m THEN n ELSE n + 1
      [] e.type = "Deleted" ->
            IF from_obj_with(e.objs[1], dt) \in DOMAIN m THEN n - 1 ELSE n
      [] e.type = "Restarted" ->
            Cardinality({from_obj_with(e.objs[i], dt) : i \in 1..Len(e.objs)})
      [] OTHER -> n

\* apply_watcher_event(event) is entered and reaches self.store.write().
WBegin(e) ==
    /\ wpc = "idle"
    /\ WriteAllowed(lock)
    /\ lock' = [lock EXCEPT !.writer = TRUE]
    /\ wpc' = "locked"
    /\ event' = e
    /\ pre' = store
    /\ ret' = NoRet
    /\ UNCHANGED <<dyntype, store, ready_tx, gate, applies, inits, count, handles, rh,
                   rpc, rcall>>

\* insert / remove / assignment through the write guard, which is then dropped.
WCommit ==
    /\ wpc = "locked"
    /\ store' = ApplyEvent(store, event, dyntype)
    /\ count' = CountAfter(count, store, event, dyntype)
    /\ lock' = [lock EXCEPT !.writer = FALSE]
    /\ wpc' = "unlocked"
    /\ ret' = NoRet
    /\ UNCHANGED <<dyntype, event, pre, ready_tx, gate, applies, inits, handles, rh,
                   rpc, rcall>>

\* if let Some(ready_tx) = self.ready_tx.take() { ready_tx.init(()) }, and return.
WReady ==
    /\ wpc = "unlocked"
    /\ LET t == TakeReadyTx(ready_tx)
       IN  /\ ready_tx' = t.left
           /\ gate' = IF t.taken THEN InitializerInit(gate) ELSE gate
           /\ inits' = IF t.taken THEN inits + 1 ELSE inits
    /\ applies' = TRUE
    /\ event' = NoEvent
    /\ pre' = EmptyMap
    /\ wpc' = "idle"
    /\ ret' = NoRet
    /\ UNCHANGED <<dyntype, store, lock, count, handles, rh, rpc, rcall>>

\* The Writer goes out of scope: ready_tx, if still there, is dropped with it.
WDrop ==
    /\ wpc = "idle"
    /\ wpc' = "dropped"
    /\ gate' = IF ready_tx THEN InitializerDrop(gate) ELSE gate
    /\ ready_tx' = FALSE
    /\ ret' = NoRet
    /\ UNCHANGED <<dyntype, store, lock, event, pre, applies, inits, count, handles, rh,
                   rpc, rcall>>

\* writer.as_reader(): one more Store handle (the Writer is borrowed, so no
\* apply is in progress).
NewReader ==
    /\ wpc = "idle"
    /\ Len(handles) < MaxHandles
    /\ handles' = Append(handles, AsReader(WriterRefs))
    /\ ret' = NoRet
    /\ UNCHANGED <<dyntype, store, lock, wpc, event, pre, ready_tx, gate, applies, inits,
                   count, rh, rpc, rcall>>

\* ------------------------------------------------------------------ Store
\* store.clone(): one more Store handle, made from handle h.
CloneHandle(h) ==
    /\ Len(handles) < MaxHandles
    /\ handles' = Append(handles, CloneStore(handles[h]))
    /\ ret' = NoRet
    /\ UNCHANGED <<dyntype, store, lock, wpc, event, pre, ready_tx, gate, applies, inits,
                   count, rh, rpc, rcall>>

\* The map task r's call reads: the one its handle's store field leads to.
MapOf(r) == Content(handles[rh[r]].store)

\* What a call returns: the task, the handle, the call and the value.
Returned(r, field, val) ==
    [[NoRet EXCEPT !.task = r, !.handle = rh[r], !.call = rcall[r], !.how = "value"]
        EXCEPT ![field] = val]

\* A task calls get, state, find, len or is_empty on handle h: self.store.read().
ReadAcquire(r, h, c) ==
    /\ rpc[r] = "idle"
    /\ ReadAllowed(lock)
    /\ lock' = [lock EXCEPT !.readers = @ \cup {r}]
    /\ rpc' = [rpc EXCEPT ![r] = "reading"]
    /\ rcall' = [rcall EXCEPT ![r] = c]
    /\ rh' = [rh EXCEPT ![r] = h]
    /\ ret' = NoRet
    /\ UNCHANGED <<dyntype, store, wpc, event, pre, ready_tx, gate, applies, inits,
                   count, handles>>

\* Store::get, the exact lookup: store.get(key). A hit is cloned and returned.
GetExact(r) ==
    /\ rpc[r] = "reading"
    /\ rcall[r].op = "get"
    /\ IF MapGet(MapOf(r), ExactKey(rcall[r].key)) # {}
       THEN /\ ret' = Returned(r, "opt", MapGet(MapOf(r), ExactKey(rcall[r].key)))
            /\ rpc' = [rpc EXCEPT ![r] = "idle"]
            /\ rcall' = [rcall EXCEPT ![r] = NoCall]
            /\ rh' = [rh EXCEPT ![r] = 0]
            /\ lock' = [lock EXCEPT !.readers = @ \ {r}]
       ELSE /\ rpc' = [rpc EXCEPT ![r] = "fallback"]
            /\ ret' = NoRet
            /\ UNCHANGED <<rcall, rh, lock>>
    /\ UNCHANGED <<dyntype, store, wpc, event, pre, ready_tx, gate, applies, inits,
                   count, handles>>

\* Store::get, the or_else: the lookup with the namespace erased; the guard is dropped.
GetFallback(r) ==
    /\ rpc[r] = "fallback"
    /\ ret' = Returned(r, "opt", MapGet(MapOf(r), ClusterKey(rcall[r].key)))
    /\ rpc' = [rpc EXCEPT ![r] = "idle"]
    /\ rcall' = [rcall EXCEPT ![r] = NoCall]
    /\ rh' = [rh EXCEPT ![r] = 0]
    /\ lock' = [lock EXCEPT !.readers = @ \ {r}]
    /\ UNCHANGED <<dyntype, store, wpc, event, pre, ready_tx, gate, applies, inits,
                   count, handles>>

\* Store::state, find, len, is_empty: one pass over the map under the read guard.
ReadComplete(r) ==
    /\ rpc[r] = "reading"
    /\ rcall[r].op \in {"state", "find", "len", "is_empty"}
    /\ \E res \in
          CASE rcall[r].op = "state" -> {Returned(r, "bag", State(MapOf(r)))}
            [] rcall[r].op = "find" ->
                  {Returned(r, "opt", o) : o \in Find(MapOf(r), rcall[r].pred)}
            [] rcall[r].op = "len" -> {Returned(r, "n", StoreLen(MapOf(r)))}
            [] rcall[r].op = "is_empty" -> {Returned(r, "flag", IsEmpty(MapOf(r)))} :
          ret' = res
    /\ rpc' = [rpc EXCEPT ![r] = "idle"]
    /\ rcall' = [rcall EXCEPT ![r] = NoCall]
    /\ rh' = [rh EXCEPT ![r] = 0]
    /\ lock' = [lock EXCEPT !.readers = @ \ {r}]
    /\ UNCHANGED <<dyntype, store, wpc, event, pre, ready_tx, gate, applies, inits,
                   count, handles>>

\* A variant that reports every settled cell as ready.
WaitOutcomeOk(g) == "ok"

\* A variant that reports every settled cell as abandoned.
WaitOutcomeErr(g) == "err"

\* How self.ready_rx.get().await.map_err(WriterDropped) ends for a settled cell:
\* Ok(()) or Err(WriterDropped).
WaitOutcome(g) == IF g = "Set" THEN "ok" ELSE "err"

\* A variant in which the suspended call keeps a read guard on the map.
WaitGuardRead(lk, r) == [lk EXCEPT !.readers = @ \cup {r}]

\* The RwLock once wait_until_ready is suspended: the call touches ready_rx
\* only and takes no guard.
WaitGuard(lk, r) == lk

\* A variant in which dropping a waiter closes the cell for everyone.
DropWaitFutureCloses(g) == IF g = "Unset" THEN "Abandoned" ELSE g

\* The cell once a suspended get() future is dropped: as it was.
DropWaitFuture(g) == g

\* Store::wait_until_ready is called on handle h and polled: it suspends.
WaitStart(r, h) ==
    /\ rpc[r] = "idle"
    /\ rpc' = [rpc EXCEPT ![r] = "waiting"]
    /\ rcall' = [rcall EXCEPT ![r] = WaitCall]
    /\ rh' = [rh EXCEPT ![r] = h]
    /\ lock' = WaitGuard(lock, r)
    /\ ret' = NoRet
    /\ UNCHANGED <<dyntype, store, wpc, event, pre, ready_tx, gate, applies, inits,
                   count, handles>>

\* The cell has settled: the future resolves.
WaitResolve(r) ==
    /\ rpc[r] = "waiting"
    /\ CellOf(handles[rh[r]].ready_rx) # "Unset"
    /\ ret' = [NoRet EXCEPT !.task = r, !.handle = rh[r], !.call = WaitCall,
                            !.how = WaitOutcome(CellOf(handles[rh[r]].ready_rx))]
    /\ rpc' = [rpc EXCEPT ![r] = "idle"]
    /\ rcall' = [rcall EXCEPT ![r] = NoCall]
    /\ rh' = [rh EXCEPT ![r] = 0]
    /\ UNCHANGED <<dyntype, store, lock, wpc, event, pre, ready_tx, gate, applies, inits,
                   count, handles>>

\* The suspended future is dropped by its task.
WaitCancel(r) ==
    /\ rpc[r] = "waiting"
    /\ gate' = DropWaitFuture(gate)
    /\ ret' = [NoRet EXCEPT !.task = r, !.handle = rh[r], !.call = WaitCall,
                            !.how = "cancelled"]
    /\ rpc' = [rpc EXCEPT ![r] = "idle"]
    /\ rcall' = [rcall EXCEPT ![r] = NoCall]
    /\ rh' = [rh EXCEPT ![r] = 0]
    /\ UNCHANGED <<dyntype, store, lock, wpc, event, pre, ready_tx, applies, inits,
                   count, handles>>

\* The handles made so far.
Handles == DOMAIN handles

Next ==
    \/ \E e \in Events : WBegin(e)
    \/ WCommit
    \/ WReady
    \/ WDrop
    \/ \E r \in Readers, h \in Handles, c \in Calls : ReadAcquire(r, h, c)
    \/ \E r \in Readers : GetExact(r)
    \/ \E r \in Readers : GetFallback(r)
    \/ \E r \in Readers : ReadComplete(r)
    \/ \E r \in Readers, h \in Handles : WaitStart(r, h)
    \/ \E r \in Readers : WaitResolve(r)
    \/ \E r \in Readers : WaitCancel(r)

\* The Writer and the tasks, all calls going through the handle store() returns.
Spec == Init /\ [][Next]_vars

\* The Writer and the tasks waiting for readiness alone.
GateNext ==
    \/ \E e \in Events : WBegin(e)
    \/ WCommit
    \/ WReady
    \/ WDrop
    \/ \E r \in Readers, h \in Handles : WaitStart(r, h)
    \/ \E r \in Readers : WaitResolve(r)
    \/ \E r \in Readers : WaitCancel(r)

GateSpec == Init /\ [][GateNext]_vars

\* The executor polls a suspended wait_until_ready again once the cell has
\* settled and woken it.
LiveGateSpec == GateSpec /\ \A r \in Readers : WF_vars(WaitResolve(r))

\* The same with more handles made on the way, by as_reader and by clone.
HandleNext ==
    \/ Next
    \/ NewReader
    \/ \E h \in Handles : CloneHandle(h)

HandleSpec == Init /\ [][HandleNext]_vars

\* ------------------------------------------------------------ properties
\* The key apply_watcher_event computes for the object of an Applied or Deleted event.
EventKey == from_obj_with(event.objs[1], dyntype)

\* Key k with no namespace.
Unscoped(k) == [dyntype |-> k.dyntype, namespace |-> NoNamespace, name |-> k.name]

\* A call that read the map has just returned.
ReadReturned == ret.how = "value"

\* The value in ret is what its call returns when it reads all of map m.
ObservesMap(rt, m) ==
    CASE rt.call.op = "get" -> rt.opt = Get(m, rt.call.key)
      [] rt.call.op = "state" -> rt.bag = State(m)
      [] rt.call.op = "find" -> rt.opt \in Find(m, rt.call.pred)
      [] rt.call.op = "len" -> rt.n = StoreLen(m)
      [] rt.call.op = "is_empty" -> rt.flag = IsEmpty(m)
      [] OTHER -> FALSE

\* C1: once apply(Applied(R)) has written the map, and until the next event,
\* get(K) for the key K computed from R is Some(R), whatever was stored under K
\* before; a get(K) call that returns in that window returns R.
C1_UpsertThenGet ==
    (wpc = "unlocked" /\ event.type = "Applied") =>
        /\ Get(store, EventKey) = {event.objs[1]}
        /\ (ReadReturned /\ ret.call.op = "get" /\ ret.call.key = EventKey)
              => ret.opt = {event.objs[1]}

\* C1 witness: R replaced a different object stored under K, and a get(K) call
\* has just returned R.
C1_Witness ==
    /\ wpc = "unlocked"
    /\ event.type = "Applied"
    /\ EventKey \in DOMAIN pre
    /\ pre[EventKey] # event.objs[1]
    /\ ReadReturned /\ ret.call.op = "get" /\ ret.call.key = EventKey
    /\ ret.opt = {event.objs[1]}

\* C2 as stated: after apply(Deleted(R)) with R stored under K before, get(K)
\* is None.
C2_DeleteThenGetAbsent ==
    (wpc = "unlocked" /\ event.type = "Deleted" /\ MapGet(pre, EventKey) = {event.objs[1]})
        => Get(store, EventKey) = {}

\* C2 amended: after apply(Deleted(R)) no entry is stored under K, and get(K)
\* returns what is stored under K with the namespace erased: None when R is
\* cluster-scoped or no cluster-scoped entry of that name is stored, and else
\* that cluster-scoped entry.
C2_DeleteThenGet ==
    (wpc = "unlocked" /\ event.type = "Deleted") =>
        /\ EventKey \notin DOMAIN store
        /\ Get(store, EventKey) = MapGet(store, Unscoped(EventKey))
        /\ (event.objs[1].namespace = NoNamespace \/ Unscoped(EventKey) \notin DOMAIN store)
              => Get(store, EventKey) = {}
        /\ (ReadReturned /\ ret.call.op = "get" /\ ret.call.key = EventKey)
              => ret.opt = MapGet(store, Unscoped(EventKey))

\* C2 witness: R was stored under K, has been deleted, and a get(K) call has
\* just returned None.
C2_Witness ==
    /\ wpc = "unlocked"
    /\ event.type = "Deleted"
    /\ MapGet(pre, EventKey) = {event.objs[1]}
    /\ ReadReturned /\ ret.call.op = "get" /\ ret.call.key = EventKey
    /\ ret.opt = {}

\* The elements of the list of a Restarted event, and their keys.
ListObjs == {event.objs[i] : i \in 1..Len(event.objs)}
ListKeys == {from_obj_with(o, dyntype) : o \in ListObjs}

\* C3: after apply(Restarted(L)), and until the next event, the map holds for
\* each element of L exactly one entry under that element's key, holding an
\* element of L with that key, and no entry under any other key; state()
\* lists exactly those values, once each, so nothing from before the resync is
\* left unless L brings it.
C3_ResyncContent ==
    (wpc = "unlocked" /\ event.type = "Restarted") =>
        /\ DOMAIN store = ListKeys
        /\ \A o \in ListObjs :
              /\ Cardinality({k \in DOMAIN store : k = from_obj_with(o, dyntype)}) = 1
              /\ store[from_obj_with(o, dyntype)] \in
                    {o2 \in ListObjs : from_obj_with(o2, dyntype) = from_obj_with(o, dyntype)}
        /\ BagToSet(State(store)) \subseteq ListObjs
        /\ \A v \in BagToSet(State(store)) : State(store)[v] = 1
        /\ BagCardinality(State(store)) = Cardinality(ListKeys)
        /\ (Cardinality(ListKeys) = Len(event.objs)) => BagToSet(State(store)) = ListObjs
        /\ (ReadReturned /\ ret.call.op = "state") =>
              /\ BagToSet(ret.bag) \subseteq ListObjs
              /\ BagCardinality(ret.bag) = Cardinality(ListKeys)

\* C3 witness: the map held an entry that L does not bring, the resync has
\* been written, and a state() call has just returned the values of L.
C3_Witness ==
    /\ wpc = "unlocked"
    /\ event.type = "Restarted"
    /\ Len(event.objs) = 2
    /\ Cardinality(ListKeys) = 2
    /\ \E k \in DOMAIN pre : pre[k] \notin ListObjs
    /\ ReadReturned /\ ret.call.op = "state"
    /\ BagToSet(ret.bag) = ListObjs

\* C4: a get, state, find, len or is_empty call that returns while
\* apply(Restarted(L)) is in progress returns what it returns on the whole map
\* as it was before the call, or on the whole map built from L.
C4_ResyncAtomic ==
    (ReadReturned /\ wpc \in {"locked", "unlocked"} /\ event.type = "Restarted") =>
        \/ ObservesMap(ret, pre)
        \/ ObservesMap(ret, Collect(event.objs, dyntype))

\* C4 witness: a call returned during apply(Restarted(L)) with a value that
\* the map before the resync does not give: it saw the new map, whole.
C4_Witness ==
    /\ ReadReturned
    /\ wpc = "unlocked"
    /\ event.type = "Restarted"
    /\ DOMAIN pre # {}
    /\ DOMAIN store # {}
    /\ ~ObservesMap(ret, pre)
    /\ ObservesMap(ret, store)

\* Keys that carry a namespace, and keys that carry none.
NamespacedKeys == {k \in Keys : k.namespace # NoNamespace}
ClusterKeys == {k \in Keys : k.namespace = NoNamespace}

\* C5: in every reachable state, for a key with a namespace under which
\* nothing is stored while an entry is stored under the same key without the
\* namespace, get returns that cluster-scoped entry; so does a get call that
\* has just returned.
C5_FallbackToCluster ==
    /\ \A k \in NamespacedKeys :
          (k \notin DOMAIN store /\ Unscoped(k) \in DOMAIN store)
              => Get(store, k) = {store[Unscoped(k)]}
    /\ (/\ ReadReturned /\ ret.call.op = "get"
        /\ ret.call.key \in NamespacedKeys
        /\ ret.call.key \notin DOMAIN store
        /\ Unscoped(ret.call.key) \in DOMAIN store)
          => ret.opt = {store[Unscoped(ret.call.key)]}

\* C5 witness: a get call with a namespaced key has just returned the
\* cluster-scoped entry of that name.
C5_Witness ==
    /\ ReadReturned /\ ret.call.op = "get"
    /\ ret.call.key \in NamespacedKeys
    /\ ret.call.key \notin DOMAIN store
    /\ Unscoped(ret.call.key) \in DOMAIN store
    /\ ret.opt = {store[Unscoped(ret.call.key)]}
    /\ \A v \in ret.opt : v.namespace = NoNamespace

\* C6: in every reachable state, get with a key without namespace returns
\* what is stored under exactly that key, or None; it never returns an object
\* that has a namespace; so does a get call that has just returned.
C6_NoFallbackToNamespaced ==
    /\ \A k \in ClusterKeys :
          /\ Get(store, k) = MapGet(store, k)
          /\ \A v \in Get(store, k) : v.namespace = NoNamespace
    /\ (ReadReturned /\ ret.call.op = "get" /\ ret.call.key \in ClusterKeys) =>
          /\ ret.opt = MapGet(store, ret.call.key)
          /\ \A v \in ret.opt : v.namespace = NoNamespace

\* C6 witness: an object of that name is stored under a namespaced key only,
\* and a get call with the cluster-scoped key has just returned None.
C6_Witness ==
    /\ ReadReturned /\ ret.call.op = "get"
    /\ ret.call.key \in ClusterKeys
    /\ ret.call.key.dyntype = dyntype
    /\ ret.call.key \notin DOMAIN store
    /\ \E k \in DOMAIN store : k.name = ret.call.key.name /\ k.namespace # NoNamespace
    /\ ret.opt = {}

\* Task r's wait_until_ready has just ended in one of the ways in hows.
WaitEnded(r, hows) == ret.task = r /\ ret.call.op = "wait" /\ ret.how \in hows

\* C7: once an apply call of any kind has completed the cell is set, also
\* after the Writer is dropped; no wait_until_ready resolves with
\* WriterDropped from then on; and a task suspended in wait_until_ready then
\* gets Ok(()), unless it drops the future first.
C7_ReadinessRelease ==
    /\ [](applies => gate = "Set")
    /\ [](applies => \A r \in Readers : ~WaitEnded(r, {"err"}))
    /\ \A r \in Readers :
          (rpc[r] = "waiting" /\ applies) ~> WaitEnded(r, {"ok", "cancelled"})

\* C7 witness: one apply call completed, the Writer was dropped, and a
\* wait_until_ready has just resolved with Ok(()).
C7_Witness ==
    /\ applies
    /\ wpc = "dropped"
    /\ \E r \in Readers : WaitEnded(r, {"ok"})

\* C8: once the Writer has been dropped with no apply call ever completed the
\* cell is abandoned; no wait_until_ready resolves with Ok(()); and a task
\* suspended in wait_until_ready, whether it started before the drop or after,
\* gets Err(WriterDropped), unless it drops the future first.
C8_ReadinessAbandoned ==
    /\ []((wpc = "dropped" /\ ~applies) => gate = "Abandoned")
    /\ []((wpc = "dropped" /\ ~applies) => \A r \in Readers : ~WaitEnded(r, {"ok"}))
    /\ \A r \in Readers :
          (rpc[r] = "waiting" /\ wpc = "dropped" /\ ~applies)
              ~> WaitEnded(r, {"err", "cancelled"})

\* C8 witness: the Writer was dropped before any apply, one wait_until_ready
\* has just resolved with Err(WriterDropped) while another task is still
\* suspended.
C8_Witness ==
    /\ ~applies
    /\ wpc = "dropped"
    /\ \E r \in Readers : WaitEnded(r, {"err"})
    /\ \E r \in Readers : rpc[r] = "waiting"

\* C9: Initializer::init runs at most once, and only in the first apply call:
\* after a completed apply call ready_tx is None, so later calls have nothing
\* to take and still complete; a set cell stays set at every step, the drop of
\* the Writer included.
C9_GateSetOnce ==
    /\ [](inits <= 1)
    /\ [](applies => (~ready_tx /\ inits = 1))
    /\ [][inits' # inits => (~applies /\ wpc = "unlocked" /\ inits' = inits + 1)]_vars
    /\ [][(gate' = "Set") <=> (gate = "Set" \/ inits' # inits)]_vars
    /\ [](wpc = "unlocked" => ENABLED WReady)

\* C9 witness: a second apply call has written the map and is about to
\* return, the cell having been set once.
C9_Witness ==
    /\ applies
    /\ wpc = "unlocked"
    /\ gate = "Set"
    /\ inits = 1
    /\ ~ready_tx

\* The values stored whose generation is g.
Matches(m, g) == {v \in {m[k] : k \in DOMAIN m} : v.generation = g}

\* C10: in every reachable state and for every predicate, find returns None
\* exactly when no stored value satisfies the predicate, and else a stored
\* value that satisfies it (the one there is, when there is one); so does a
\* find call that has just returned.
C10_FindCorrect ==
    /\ \A g \in Preds : \A o \in Find(store, g) :
          /\ o \subseteq Matches(store, g)
          /\ (o = {}) <=> (Matches(store, g) = {})
          /\ Cardinality(o) <= 1
    /\ \A g \in Preds : \A v \in Matches(store, g) : {v} \in Find(store, g)
    /\ (ReadReturned /\ ret.call.op = "find") =>
          /\ ret.opt \subseteq Matches(store, ret.call.pred)
          /\ (ret.opt = {}) <=> (Matches(store, ret.call.pred) = {})

\* C10 witness: two entries are stored, one of them satisfies the predicate,
\* and a find call has just returned that one.
C10_Witness ==
    /\ ReadReturned /\ ret.call.op = "find"
    /\ StoreLen(store) = 2
    /\ Cardinality(Matches(store, ret.call.pred)) = 1
    /\ ret.opt = Matches(store, ret.call.pred)

\* C11: in every reachable state is_empty() is true exactly when len() is 0,
\* and len() is the number of entries added minus the number removed (a
\* resync leaving as many as its list has keys), 0 on a store no event has
\* reached; a len or is_empty call that has just returned reports that number.
C11_LenIsEmpty ==
    /\ IsEmpty(store) <=> (StoreLen(store) = 0)
    /\ StoreLen(store) = count
    /\ (~applies /\ wpc \in {"idle", "locked", "dropped"}) => StoreLen(store) = 0
    /\ (ReadReturned /\ ret.call.op = "len") => ret.n = count
    /\ (ReadReturned /\ ret.call.op = "is_empty") => (ret.flag <=> (count = 0))

\* C11 witness: after a removal has brought a store of two entries down to
\* one, a len call has just returned 1.
C11_Witness ==
    /\ ReadReturned /\ ret.call.op = "len" /\ ret.n = 1
    /\ wpc = "unlocked" /\ event.type = "Deleted"
    /\ Cardinality(DOMAIN pre) = 2

\* C12: apply(Deleted(R)) with nothing stored under the key of R leaves the
\* map as it was, same keys and same values, and the call goes on to return.
C12_DeleteAbsentNoOp ==
    (wpc = "unlocked" /\ event.type = "Deleted" /\ EventKey \notin DOMAIN pre) =>
    /\ DOMAIN store = DOMAIN pre
    /\ \A k \in DOMAIN pre : store[k] = pre[k]
    /\ ENABLED WReady

\* C12 witness: a Deleted for a key not stored has been applied to a map
\* holding another entry of the same name.
C12_Witness ==
    /\ wpc = "unlocked" /\ event.type = "Deleted"
    /\ EventKey \notin DOMAIN pre
    /\ \E k \in DOMAIN pre : k.name = EventKey.name

\* What every call on the Store handle with references h gives in this state.
Answers(h) ==
    [get |-> [k \in Keys |-> Get(Content(h.store), k)],
     state |-> State(Content(h.store)),
     find |-> [g \in Preds |-> Find(Content(h.store), g)],
     len |-> StoreLen(Content(h.store)),
     is_empty |-> IsEmpty(Content(h.store)),
     ready |-> CellOf(h.ready_rx)]

\* C13: all Store handles of one Writer, made by as_reader or by clone, before
\* an apply or after it, give the same answers to get, state, find, len and
\* is_empty in every state and see the same readiness cell; a call that has
\* just returned through any handle returned what the Writer's map holds, and
\* a wait_until_ready through any handle ended as the Writer's cell says.
C13_HandlesShareState ==
    /\ \A h \in Handles \ {1} : Answers(handles[h]) = Answers(handles[1])
    /\ ReadReturned => ObservesMap(ret, store)
    /\ \A r \in Readers : WaitEnded(r, {"ok"}) => gate = "Set"
    /\ \A r \in Readers : WaitEnded(r, {"err"}) => gate = "Abandoned"

\* C13 witness: a second handle was made, an apply after that stored an
\* entry, and a state call through the second handle has just returned it.
C13_Witness ==
    /\ Len(handles) = 2
    /\ ReadReturned /\ ret.handle = 2 /\ ret.call.op = "state"
    /\ ret.bag # EmptyBag
    /\ wpc = "unlocked" /\ pre = EmptyMap

\* C14: every wait_until_ready pending when the cell settles is resolved, with
\* Ok(()) if the cell was set and with Err(WriterDropped) if it was abandoned
\* (unless its task drops it first); a settled cell never changes again, so a
\* waiter that resolves takes nothing from the waiters still pending, which
\* stay pending until they resolve in turn.
C14_Broadcast ==
    /\ \A r \in Readers :
          (rpc[r] = "waiting" /\ gate = "Set") ~> WaitEnded(r, {"ok", "cancelled"})
    /\ \A r \in Readers :
          (rpc[r] = "waiting" /\ gate = "Abandoned") ~> WaitEnded(r, {"err", "cancelled"})
    /\ [](\A r \in Readers : WaitEnded(r, {"ok"}) => gate = "Set")
    /\ [](\A r \in Readers : WaitEnded(r, {"err"}) => gate = "Abandoned")
    /\ [][gate # "Unset" => gate' = gate]_vars
    /\ [][ret'.how \in {"ok", "err"} =>
            /\ gate' = gate
            /\ \A q \in Readers \ {ret'.task} : rpc'[q] = rpc[q]]_vars

\* C14 witness: with two waiters pending on a set cell, one has just resolved
\* with Ok(()) and the other is still pending.
C14_Witness ==
    /\ gate = "Set"
    /\ wpc # "dropped"
    /\ \E r \in Readers :
          /\ WaitEnded(r, {"ok"})
          /\ \E q \in Readers \ {r} : rpc[q] = "waiting"

\* C15: dropping a suspended wait_until_ready changes neither the cell nor
\* ready_tx nor any other task's call; a waiter pending after another was
\* cancelled is still resolved once the cell is settled; and how a wait ends
\* depends on the Writer alone: Ok(()) only after an apply call set the cell,
\* Err(WriterDropped) only after a drop with no apply before it.
C15_Cancellation ==
    /\ [][ret'.how = "cancelled" =>
            /\ gate' = gate
            /\ ready_tx' = ready_tx
            /\ \A q \in Readers \ {ret'.task} : rpc'[q] = rpc[q] /\ rcall'[q] = rcall[q]]_vars
    /\ \A r \in Readers :
          (ret.how = "cancelled" /\ rpc[r] = "waiting" /\ gate # "Unset")
              ~> WaitEnded(r, {"ok", "err", "cancelled"})
    /\ [](\A r \in Readers : WaitEnded(r, {"ok"}) => (inits = 1 /\ gate = "Set"))
    /\ [](\A r \in Readers :
            WaitEnded(r, {"err"}) => (wpc = "dropped" /\ ~applies /\ gate = "Abandoned"))

\* C15 witness: one waiter has just been cancelled while another is pending
\* on a cell not settled yet.
C15_Witness ==
    /\ ret.how = "cancelled"
    /\ gate = "Unset"
    /\ \E q \in Readers \ {ret.task} : rpc[q] = "waiting"

\* C16: a task suspended in wait_until_ready holds no guard on the map: the
\* read guards are held by exactly the tasks inside a read, the write guard by
\* the Writer inside apply; whoever holds a guard can take its next step and
\* release it; and with waiters suspended, a task can start a read whenever
\* the Writer does not hold the write guard and the Writer can start an apply
\* whenever no read is in progress.
C16_WaitHoldsNoLock ==
    /\ \A r \in Readers : rpc[r] = "waiting" => r \notin lock.readers
    /\ lock.readers = {r \in Readers : rpc[r] \in {"reading", "fallback"}}
    /\ lock.writer <=> (wpc = "locked")
    /\ \A r \in Readers :
          rpc[r] = "reading" => ENABLED (GetExact(r) \/ ReadComplete(r))
    /\ \A r \in Readers : rpc[r] = "fallback" => ENABLED GetFallback(r)
    /\ wpc = "locked" => ENABLED WCommit
    /\ \A r \in Readers :
          (rpc[r] = "idle" /\ wpc # "locked") =>
              ENABLED (\E c \in Calls : ReadAcquire(r, 1, c))
    /\ (wpc = "idle" /\ \A r \in Readers : rpc[r] \in {"idle", "waiting"}) =>
          ENABLED (\E e \in Events : WBegin(e))

\* C16 witness: with one task suspended on an unset cell, the Writer has
\* written the map and another task's read has just returned.
C16_Witness ==
    /\ gate = "Unset"
    /\ wpc = "unlocked"
    /\ ReadReturned
    /\ \E q \in Readers \ {ret.task} : rpc[q] = "waiting"

\* C17: get with a key that is stored returns the entry stored under that very
\* key, also when a cluster-scoped entry of the same name is stored beside it;
\* a get call goes on to the lookup without namespace only when nothing is
\* stored under the key it was given.
C17_ExactMatchFirst ==
    /\ \A k \in DOMAIN store : Get(store, k) = {store[k]}
    /\ (ReadReturned /\ ret.call.op = "get" /\ ret.call.key \in DOMAIN store) =>
          ret.opt = {store[ret.call.key]}
    /\ \A r \in Readers : rpc[r] = "fallback" => rcall[r].key \notin DOMAIN store

\* C17 witness: a namespaced entry and the cluster-scoped entry of the same
\* name are both stored, and a get with the namespaced key has just returned
\* the namespaced one.
C17_Witness ==
    /\ ReadReturned /\ ret.call.op = "get"
    /\ ret.call.key \in NamespacedKeys
    /\ ret.call.key \in DOMAIN store
    /\ Unscoped(ret.call.key) \in DOMAIN store
    /\ ret.opt = {store[ret.call.key]}
    /\ ret.opt # {store[Unscoped(ret.call.key)]}

\* C18: once apply(Applied(R)) or apply(Deleted(R)) has written the map, every
\* key other than the key of R is stored exactly if it was stored before, and
\* with the value it had before, keys of the same name under another
\* namespace or under none included.
C18_SingleObjectFrame ==
    (wpc = "unlocked" /\ event.type \in {"Applied", "Deleted"}) =>
        \A k \in Keys \ {EventKey} :
            /\ (k \in DOMAIN store) <=> (k \in DOMAIN pre)
            /\ k \in DOMAIN pre => store[k] = pre[k]

\* C18 witness: an Applied has overwritten the entry under its key while an
\* entry of the same name under another key was stored, which is still there.
C18_Witness ==
    /\ wpc = "unlocked" /\ event.type = "Applied"
    /\ EventKey \in DOMAIN pre
    /\ store[EventKey] # pre[EventKey]
    /\ \E k \in DOMAIN store \ {EventKey} : k.name = EventKey.name

\* Map m shows what event e asks for: the object under its key for an Applied,
\* nothing under its key for a Deleted, the keys and objects of the list for a
\* Restarted.
Reflects(m, e) ==
    CASE e.type = "Applied" -> EventKey \in DOMAIN m /\ m[EventKey] = e.objs[1]
      [] e.type = "Deleted" -> EventKey \notin DOMAIN m
      [] e.type = "Restarted" ->
            /\ DOMAIN m = ListKeys
            /\ \A k \in DOMAIN m : m[k] \in ListObjs
      [] OTHER -> FALSE

\* C19: the cell is set only by a step of the first apply call that comes
\* after that call has written the map and released the write guard: at that
\* step the map already shows the first event and the step leaves it alone. So
\* the cell is never set before an apply call has gone through the map, a
\* wait_until_ready resolves with Ok(()) only then, and a read returning while
\* the cell is set returns what the map holds after that.
C19_MutationBeforeReady ==
    /\ [][(gate # "Set" /\ gate' = "Set") =>
            /\ wpc = "unlocked" /\ ~applies /\ applies'
            /\ ~lock.writer
            /\ pre = EmptyMap
            /\ Reflects(store, event)
            /\ store' = store]_vars
    /\ [](gate = "Set" => applies)
    /\ [](\A r \in Readers : WaitEnded(r, {"ok"}) => applies)
    /\ []((ReadReturned /\ gate = "Set") => ObservesMap(ret, store))

\* C19 witness: the first apply call has stored an object and set the cell,
\* and a wait_until_ready has just resolved with Ok(()) before any other event.
C19_Witness ==
    /\ \E r \in Readers : WaitEnded(r, {"ok"})
    /\ wpc = "idle"
    /\ inits = 1
    /\ StoreLen(store) = 1

\* C20: every entry of the map is stored under the key made of the Writer's
\* dyntype and its own value's namespace and name; so get with the key of any
\* element of state() returns that element, state() has as many elements as
\* len() says, and a state call that has just returned has that many.
C20_KeyValueAgreement ==
    /\ \A k \in DOMAIN store :
          k = [dyntype |-> dyntype, namespace |-> store[k].namespace,
               name |-> store[k].name]
    /\ \A v \in BagToSet(State(store)) :
          Get(store, [dyntype |-> dyntype, namespace |-> v.namespace,
                      name |-> v.name]) = {v}
    /\ BagCardinality(State(store)) = StoreLen(store)
    /\ (ReadReturned /\ ret.call.op = "state") => BagCardinality(ret.bag) = count

\* C20 witness: with a namespaced and a cluster-scoped object of the same
\* name stored, a state call has just returned both.
C20_Witness ==
    /\ ReadReturned /\ ret.call.op = "state"
    /\ BagCardinality(ret.bag) = 2
    /\ \E v, w \in BagToSet(ret.bag) : v.name = w.name /\ v.namespace # w.namespace

====
